---- MODULE Spec2Model ----
(***************************************************************************)
(* Model of the smart-heater schedule builder (src/src/schedule.py), the   *)
(* fetch orchestration (src/src/fetch.py) and the "at" queue adapter       *)
(* (src/src/manage.py).                                                    *)
(*                                                                         *)
(* Time is counted in whole minutes.  Minute 0 is 00:00 market time of the *)
(* day the schedule is built for; hour h of that day starts at minute      *)
(* h * 60.  An event is the tuple <<event_type, event_time>>, as in the    *)
(* source.                                                                 *)
(***************************************************************************)
EXTENDS Integers, Sequences, FiniteSets, TLC

\* ---------------------------------------------------------------- bounds
\* Hours 0 .. MaxHour-1 of the day can be given to the builder.
MaxHour == 4
\* Number of add_heating_slice calls of one builder session.
MaxSlices == 3
\* The same two bounds for sessions whose slices start off the hour boundary.
MaxFreeHour == 2
MaxFreeSlices == 2
\* Hours and list length of the hand-built schedules given to upload.
MaxUploadHour == 3
MaxEvents == 3
\* The daily heating budget is a multiple of 30 minutes, at most this many.
MaxBudgetHalfHours == 5
\* Most events one fetch process of the lock model inserts.
MaxInserts == 2
\* Most jobs in the queues given to the adapter calls.
MaxMembers == 4
\* Number of add_heating_slice calls of a session of whole-hour slices.
MaxHourSlices == 4

\* Hours and whole-hour slices of a session that starts off the hour.
MaxRunHours == 3
MaxRunSlices == 3

\* Half hours by which a heating budget may exceed the hours of the price table.
MaxOverHalfHours == 1

\* Hours of heating a weekday can be given in the configuration.
MaxDayHours == 1

\* Values a key of a compared configuration can have: 1 .. MaxValue.
MaxValue == 2

\* Required keys a table of the configuration file may lack.
MaxMissing == 1

\* Sections of the configuration file that are not complete tables.
MaxDamaged == 2

\* Entries in the crontab before setup runs, and runs of setup.
MaxCronJobs == 2
MaxSetupRuns == 2

\* ------------------------------------------------------ program constants
ON_EVENT == 0
OFF_EVENT == 1
\* timedelta(hours=1) and timedelta(hours=1, minutes=1), in minutes
HourMins == 60
ContigWindow == 61
\* Offsets of Europe/Oslo from UTC in minutes: CET and CEST.
CetOffset == 60
CestOffset == 120
\* Market-time minute at which CEST starts on the day clocks go forward (03:00)
\* and at which CET is taken again on the day they go back (02:00).
SpringSwitch == 180
AutumnSwitch == 120
\* The same two instants in UTC (01:00).
UtcSwitch == 60
\* timedelta(days=1) in minutes
DayMins == 1440

\* Lengths of a time-slice: the fragments the tests use, and the full hour.
FragLens == {15, 30, 45}
SliceLens == FragLens \cup {HourMins}
Hours == 0 .. (MaxHour - 1)
\* Minute offsets of a slice start inside its hour (MIN_OFFSETS of the tests).
MinOffsets == {0, 15, 30, 45}
FreeStarts == {h * HourMins + o : h \in 0 .. (MaxFreeHour - 1), o \in MinOffsets}

\* environment.switch_queue of every valid configuration (setup.py writes "s").
SwitchQueue == "s"
\* environment.at_queue is not a required key: a valid configuration may lack it.
MissingKey == "missing"
AtQueueValues == {MissingKey, SwitchQueue}
\* Another queue tag of the "at" daemon: jobs of other programs, or the value
\* a configuration file gives environment.at_queue.
OtherQueue == "a"

\* The market calendar on the day of the schedule: all CET, all CEST, the day
\* clocks go forward, the day clocks go back.
DstModes == {"winter", "summer", "spring", "autumn"}

\* The system clock as the time module reports it (minutes west of UTC):
\* a host on UTC, and a host on Europe/Tallinn.
SysZones == { [timezone |-> 0, altzone |-> 0, daylight |-> 0],
              [timezone |-> -120, altzone |-> -180, daylight |-> 1] }

VARIABLES
    sched,       \* ScheduleBuilder.sched: list of <<event_type, event_time>>
    added,       \* history: the slices <<start_time, num_mins>> added so far
    err,         \* exception raised by the last call, "none" if it returned
    pc,          \* position of the run
    data,        \* PriceData.data: the rows <<start_time, price>> not yet popped
    rem_minutes, \* do_fetch's rem_minutes
    cmds,        \* "at" commands submitted by upload_command, in order
    atq,         \* jobs in the "at" daemon: [id, time (system time), queue]
    at_queue,    \* prog_config['environment']['at_queue'], or MissingKey
    dst,         \* market calendar of the day, one of DstModes
    sys,         \* system time zone, one of SysZones
    budget,      \* prog_config.get_heating_minutes(weekday) of the run
    table,       \* the rows <<start_time, price>> in the order add_price_item got them
    failed,      \* positions in cmds of the commands whose "at" process failed
    qcall,       \* the queue operation called on the adapter, with its result
    lock,        \* holder of the lock file, Free if nobody holds it
    procs,       \* every fetch and setup process: [pc, n, todo], its position,
                 \* the queue changes it has made and those it has left to make
    config_tree, \* the dictionary toml.load gives ProgramConfig
    crontab,     \* the user's crontab: list of [comment, minute, hour]
    ret,         \* what the last configuration call returned or raised
    pin,         \* level of the GPIO output pin, Unset before any GPIO.output
    fired        \* the switch job "at" has started: [action, reverse_polarity]

vars == <<sched, added, err, pc, data, rem_minutes, cmds, atq, at_queue, dst, sys,
          budget, table, failed, qcall, lock, procs, pin, fired, config_tree, crontab, ret>>
\* What a run is given and does not change: configuration, clocks, prices.
env == <<at_queue, dst, sys, budget, table>>
\* The adapter call record, the processes, the configuration file and the
\* crontab: no builder or fetch step of the one run followed by pc touches them.
others == <<qcall, lock, procs, pin, fired, config_tree, crontab, ret>>

\* ------------------------------------------------------------ config.py
WEEKDAY_KEYS ==
    <<"monday", "tuesday", "wednesday", "thursday", "friday", "saturday", "sunday">>

\* The required sections with their required keys, in the order of the dict.
CONFIG_REQ_KEYS ==
    << [section |-> "heating-schedule", keys |-> WEEKDAY_KEYS],
       [section |-> "fetch", keys |-> <<"url", "region_code">>],
       [section |-> "environment", keys |-> <<"python", "script_dir", "switch_queue">>],
       [section |-> "hardware", keys |-> <<"switch_pin", "reverse_polarity">>],
       [section |-> "logging", keys |-> <<"fetch_logfile", "switch_logfile">>] >>

\* A region code is a name in some letter case; the list holds upper-case names.
UpperCase(name) == [name |-> name, case |-> "upper"]
ACCEPTABLE_REGION_NAMES ==
    {UpperCase(n) : n \in {"SYS", "SE1", "SE2", "SE3", "SE4", "FI", "DK1", "DK2",
                            "OSLO", "KR.SAND", "BERGEN", "MOLDE", "TR.HEIM", "TROMSE",
                            "EE", "LV", "LT", "AT", "BE", "DE-LU", "FR", "NL"}}

\* str.upper()
upper(region_code) == [name |-> region_code.name, case |-> "upper"]

\* What the file can hold under the name of a section: nothing, a value that
\* is not a table, or a table with some keys.
Absent == [kind |-> "absent", keys |-> {}]
Scalar == [kind |-> "scalar", keys |-> {}]
Table(keys) == [kind |-> "table", keys |-> keys]

Range(seq) == {seq[i] : i \in 1 .. Len(seq)}

\* What a configuration call gives back: (ok, msg), or the exception raised.
Returned(ok, msg) == [ok |-> ok, msg |-> msg, exc |-> "none"]
Raised(exc) == [ok |-> FALSE, msg |-> "none", exc |-> exc]

\* check_config_keys on a list of required keys: the first key that is not
\* in config_subtree.keys(); a value that is not a dict has no keys().
check_config_keys_list(req_subtree, config_subtree) ==
    IF config_subtree.kind # "table" THEN Raised("attribute_error")
    ELSE LET missing == {i \in 1 .. Len(req_subtree) :
                            req_subtree[i] \notin config_subtree.keys}
         IN  IF missing = {} THEN Returned(TRUE, "none")
             ELSE Returned(FALSE,
                           req_subtree[CHOOSE i \in missing : \A j \in missing : i <= j])

\* check_config_keys on the dict of sections, from section i on.
RECURSIVE check_config_keys(_, _)
check_config_keys(sections, i) ==
    IF i > Len(CONFIG_REQ_KEYS) THEN Returned(TRUE, "none")
    ELSE IF sections[i].kind = "absent"
    THEN Returned(FALSE, CONFIG_REQ_KEYS[i].section)
    ELSE LET downtree == check_config_keys_list(CONFIG_REQ_KEYS[i].keys, sections[i])
         IN  IF downtree.exc # "none" \/ ~downtree.ok THEN downtree
             ELSE check_config_keys(sections, i + 1)

\* region_code.upper() in ACCEPTABLE_REGION_NAMES; a number has no upper().
check_config_region(region_code) ==
    IF region_code.case = "number" THEN Raised("attribute_error")
    ELSE Returned(upper(region_code) \in ACCEPTABLE_REGION_NAMES, "none")

check_config(unchecked) ==
    LET key_check_res == check_config_keys(unchecked.sections, 1)
    IN  IF key_check_res.exc # "none" THEN key_check_res
        ELSE IF ~key_check_res.ok THEN key_check_res
        ELSE LET region == check_config_region(unchecked.region)
             IN  IF region.exc # "none" THEN region
                 ELSE IF ~region.ok THEN Returned(FALSE, "region")
                 ELSE Returned(TRUE, "none")

\* The configuration setup.py writes for region EE.
ValidConfig ==
    [sections |-> [i \in 1 .. Len(CONFIG_REQ_KEYS) |-> Table(Range(CONFIG_REQ_KEYS[i].keys))],
     region |-> UpperCase("EE")]

\* No queue operation has been called; the lock file does not exist; no
\* process has started.
NoCall == [op |-> "none"]
Free == "free"
Procs == {"fetch1", "fetch2", "setup", "switch"}
Unset == "unset"
NoJob == [action |-> "none", reverse_polarity |-> FALSE]
NotStarted == [pc |-> "idle", n |-> 0, todo |-> 0]
OthersIdle ==
    /\ qcall = NoCall
    /\ lock = Free
    /\ procs = [p \in Procs |-> NotStarted]
    /\ pin = Unset
    /\ fired = NoJob
    /\ config_tree = ValidConfig
    /\ crontab = <<>>
    /\ ret = NoCall

\* ------------------------------------------------------------ util.py
plus_hour(date_time) == date_time + HourMins

\* Mutant: the window ends at the hour, without the extra minute.
hours_contiguous_strict(first_start, second_start) ==
    first_start < second_start /\ second_start < first_start + HourMins

hours_contiguous(first_start, second_start) ==
    first_start < second_start /\ second_start < first_start + ContigWindow

\* (b - 1 minute).hour == a.hour on times of one day.
same_hour(a, b) ==
    /\ a # b
    /\ b - a < HourMins
    /\ (b - 1) \div HourMins = a \div HourMins

\* ------------------------------------------------------- sorted(key=x[1])
\* Python's sorted is stable: events with equal times keep their list order.
RECURSIVE InsertByTime(_, _)
InsertByTime(s, e) ==
    IF s = <<>> THEN <<e>>
    ELSE IF s[Len(s)][2] <= e[2] THEN Append(s, e)
    ELSE Append(InsertByTime(SubSeq(s, 1, Len(s) - 1), e), s[Len(s)])

RECURSIVE SortByTime(_)
SortByTime(s) ==
    IF s = <<>> THEN <<>>
    ELSE InsertByTime(SortByTime(SubSeq(s, 1, Len(s) - 1)), s[Len(s)])

\* ------------------------------------- ScheduleBuilder.add_heating_slice
\* The for loop stops at the first event that is contiguous with the slice on
\* either side: there it either moves the event and breaks, or raises.
SliceTouches(start_time, event_time) ==
    \/ hours_contiguous(start_time, event_time)
    \/ hours_contiguous(event_time, plus_hour(start_time))

FirstTouched(s, start_time) ==
    LET hits == {i \in 1 .. Len(s) : SliceTouches(start_time, s[i][2])}
    IN  IF hits = {} THEN 0
        ELSE CHOOSE i \in hits : \A j \in hits : i <= j

\* Mutant: the new pair is appended with its OFF event at the slice's start.
add_heating_slice_off_at_start(s, start_time, num_mins) ==
    [sched |-> s \o << <<ON_EVENT, start_time>>, <<OFF_EVENT, start_time>> >>,
     err |-> "none"]

\* Mutant: a merged slice always moves the neighbouring event by a full hour.
add_heating_slice_full_hour(s, start_time, num_mins) ==
    LET i == FirstTouched(s, start_time)
    IN  IF i = 0
        THEN [sched |-> s \o << <<ON_EVENT, start_time>>,
                                <<OFF_EVENT, start_time + num_mins>> >>,
              err |-> "none"]
        ELSE IF hours_contiguous(start_time, s[i][2])
        THEN IF s[i][1] = ON_EVENT
             THEN [sched |-> [s EXCEPT ![i] = <<ON_EVENT, s[i][2] - HourMins>>],
                   err |-> "none"]
             ELSE [sched |-> s, err |-> "duplicate_before_off"]
        ELSE IF s[i][1] = OFF_EVENT
             THEN [sched |-> [s EXCEPT ![i] = <<OFF_EVENT, s[i][2] + HourMins>>],
                   err |-> "none"]
             ELSE [sched |-> s, err |-> "duplicate_after_on"]

\* Mutant: a slice that comes before an ON event moves it later.
add_heating_slice_on_later(s, start_time, num_mins) ==
    LET i == FirstTouched(s, start_time)
    IN  IF i = 0
        THEN [sched |-> s \o << <<ON_EVENT, start_time>>,
                                <<OFF_EVENT, start_time + num_mins>> >>,
              err |-> "none"]
        ELSE IF hours_contiguous(start_time, s[i][2])
        THEN IF s[i][1] = ON_EVENT
             THEN [sched |-> [s EXCEPT ![i] = <<ON_EVENT, s[i][2] + num_mins>>],
                   err |-> "none"]
             ELSE [sched |-> s, err |-> "duplicate_before_off"]
        ELSE IF s[i][1] = OFF_EVENT
             THEN [sched |-> [s EXCEPT ![i] = <<OFF_EVENT, s[i][2] + num_mins>>],
                   err |-> "none"]
             ELSE [sched |-> s, err |-> "duplicate_after_on"]

\* Mutant: the touched event is moved before its kind is looked at, so a
\* duplicate is reported after the list has changed.
add_heating_slice_move_first(s, start_time, num_mins) ==
    LET i == FirstTouched(s, start_time)
    IN  IF i = 0
        THEN [sched |-> s \o << <<ON_EVENT, start_time>>,
                                <<OFF_EVENT, start_time + num_mins>> >>,
              err |-> "none"]
        ELSE IF hours_contiguous(start_time, s[i][2])
        THEN [sched |-> [s EXCEPT ![i] = <<s[i][1], s[i][2] - num_mins>>],
              err |-> IF s[i][1] = ON_EVENT THEN "none" ELSE "duplicate_before_off"]
        ELSE [sched |-> [s EXCEPT ![i] = <<s[i][1], s[i][2] + num_mins>>],
              err |-> IF s[i][1] = OFF_EVENT THEN "none" ELSE "duplicate_after_on"]

\* Result of one call: the new list and the exception, if any.
add_heating_slice(s, start_time, num_mins) ==
    LET i == FirstTouched(s, start_time)
    IN  IF i = 0
        THEN \* for ... else: no event was contiguous
             [sched |-> s \o << <<ON_EVENT, start_time>>,
                                <<OFF_EVENT, start_time + num_mins>> >>,
              err |-> "none"]
        ELSE IF hours_contiguous(start_time, s[i][2])
        THEN IF s[i][1] = ON_EVENT
             THEN [sched |-> [s EXCEPT ![i] = <<ON_EVENT, s[i][2] - num_mins>>],
                   err |-> "none"]
             ELSE [sched |-> s, err |-> "duplicate_before_off"]
        ELSE IF s[i][1] = OFF_EVENT
             THEN [sched |-> [s EXCEPT ![i] = <<OFF_EVENT, s[i][2] + num_mins>>],
                   err |-> "none"]
             ELSE [sched |-> s, err |-> "duplicate_after_on"]

\* ------------------------------- the three-pass add_heating_slice
\* Pass 2: scanning from the end, two neighbours with the same time are both
\* removed.
RECURSIVE CancelPairs(_)
CancelPairs(s) ==
    IF Len(s) < 2 THEN s
    ELSE LET n == Len(s)
         IN  IF s[n][2] = s[n - 1][2]
             THEN CancelPairs(SubSeq(s, 1, n - 2))
             ELSE Append(CancelPairs(SubSeq(s, 1, n - 1)), s[n])

\* List s without the events at positions i and i + 1.
WithoutPair(s, i) == SubSeq(s, 1, i - 1) \o SubSeq(s, i + 2, Len(s))

\* Pass 3 from pair k down: a pair shorter than an hour inside one clock hour
\* is merged into the pair before it, else into the pair after it, when the
\* neighbouring event lies in the same clock hour.
RECURSIVE CoalesceFrom(_, _)
CoalesceFrom(s, k) ==
    IF k < 1 THEN s
    ELSE IF 2 * k > Len(s) THEN CoalesceFrom(s, k - 1)
    ELSE LET on == s[2 * k - 1][2]
             off == s[2 * k][2]
         IN  IF ~same_hour(on, off) THEN CoalesceFrom(s, k - 1)
             ELSE IF k > 1 /\ same_hour(s[2 * k - 2][2], on)
             THEN CoalesceFrom(
                    WithoutPair([s EXCEPT ![2 * k - 2] = <<@[1], @[2] + (off - on)>>],
                                2 * k - 1), k - 1)
             ELSE IF 2 * k < Len(s) /\ same_hour(off, s[2 * k + 1][2])
             THEN CoalesceFrom(
                    WithoutPair([s EXCEPT ![2 * k + 1] = <<@[1], @[2] - (off - on)>>],
                                2 * k - 1), k - 1)
             ELSE CoalesceFrom(s, k - 1)

\* Append the pair, sort, cancel, coalesce.
three_pass_add(s, start_time, num_mins) ==
    LET appended == s \o << <<ON_EVENT, start_time>>,
                            <<OFF_EVENT, start_time + num_mins>> >>
        cancelled == CancelPairs(SortByTime(appended))
    IN  CoalesceFrom(cancelled, Len(cancelled) \div 2)

\* ------------------------------------------------ util.py: time zones
\* pytz localize(naive, is_dst=False): a wall time that does not exist or is
\* ambiguous is read as standard time (CET).
MarketOffsetOfWall(market_time, d) ==
    CASE d = "winter" -> CetOffset
      [] d = "summer" -> CestOffset
      [] d = "spring" -> IF market_time < SpringSwitch THEN CetOffset ELSE CestOffset
      [] d = "autumn" -> IF market_time < AutumnSwitch THEN CestOffset ELSE CetOffset

market_time_to_utc(market_time, d) == market_time - MarketOffsetOfWall(market_time, d)

\* astimezone(MARKET_TIMEZONE): the offset in force at the UTC instant.
MarketOffsetOfInstant(utc_time, d) ==
    CASE d = "winter" -> CetOffset
      [] d = "summer" -> CestOffset
      [] d = "spring" -> IF utc_time < UtcSwitch THEN CetOffset ELSE CestOffset
      [] d = "autumn" -> IF utc_time < UtcSwitch THEN CestOffset ELSE CetOffset

utc_to_market_time(utc_time, d) == utc_time + MarketOffsetOfInstant(utc_time, d)

\* [time.timezone, time.altzone][time.daylight]
SystemWestOfUtc(z) == IF z.daylight = 1 THEN z.altzone ELSE z.timezone

utc_to_system_time(utc_datetime, z) == utc_datetime - SystemWestOfUtc(z)

\* Mutant: the standard-time offset is added whatever time.daylight says.
system_time_to_utc_standard(sys_datetime, z) == sys_datetime + z.timezone

system_time_to_utc(sys_datetime, z) == sys_datetime + SystemWestOfUtc(z)

\* --------------------------------------------------- AtCmdWrapper
\* The -t argument: the UTC time in system time, to the minute.
datetime_to_at(time, z) == utc_to_system_time(time, z)

ActionName(event_type) == IF event_type = ON_EVENT THEN "ON" ELSE "OFF"

\* The command upload_command submits: the action given to switch.py, the -q
\* queue and the -t time; dt keeps the UTC time it was called with.
upload_command(q, event_type, event_time, z) ==
    [action |-> ActionName(event_type),
     queue |-> q,
     dt |-> event_time,
     at_t |-> datetime_to_at(event_time, z)]

\* ---------------------------------------------- ScheduleBuilder.upload
\* Mutant: the sanity checks are skipped.
UploadCheckNone(s) == "none"

\* The two sanity checks on the sorted list.
UploadCheck(s) ==
    IF s[1][1] # ON_EVENT THEN "no_on_first"
    ELSE IF s[Len(s)][1] # OFF_EVENT THEN "no_off_last"
    ELSE "none"

UploadOrder(s) == SortByTime(s)

\* Mutant: no early return on an empty list, so self.sched[0] is read.
upload_unguarded(s, q, d, z) ==
    LET sorted == UploadOrder(s)
    IN  IF Len(sorted) = 0
        THEN [sched |-> sorted, err |-> "index_error", cmds |-> <<>>]
        ELSE IF UploadCheck(sorted) # "none"
        THEN [sched |-> sorted, err |-> UploadCheck(sorted), cmds |-> <<>>]
        ELSE IF q = MissingKey
        THEN [sched |-> sorted, err |-> "key_error", cmds |-> <<>>]
        ELSE [sched |-> sorted,
              err |-> "none",
              cmds |-> [i \in 1 .. Len(sorted) |->
                          upload_command(q, sorted[i][1],
                              market_time_to_utc(sorted[i][2], d), z)]]

\* Result of upload(prog_config): the list it leaves in self.sched, the
\* exception it ends with, and the commands it has submitted.
upload(s, q, d, z) ==
    IF Len(s) = 0 THEN [sched |-> s, err |-> "none", cmds |-> <<>>]
    ELSE LET sorted == UploadOrder(s)
             check == UploadCheck(sorted)
         IN  IF check # "none"
             THEN [sched |-> sorted, err |-> check, cmds |-> <<>>]
             ELSE IF q = MissingKey
             THEN \* KeyError while the first command is formatted
                  [sched |-> sorted, err |-> "key_error", cmds |-> <<>>]
             ELSE [sched |-> sorted,
                   err |-> "none",
                   cmds |-> [i \in 1 .. Len(sorted) |->
                               upload_command(q, sorted[i][1],
                                   market_time_to_utc(sorted[i][2], d), z)]]

\* ------------------------------------------------------ the "at" daemon
MaxId(queue) ==
    IF queue = <<>> THEN 0
    ELSE CHOOSE n \in {queue[i].id : i \in 1 .. Len(queue)} :
            \A i \in 1 .. Len(queue) : queue[i].id <= n

\* at -q queue -t time: each submitted command becomes a job with a new id.
Enqueue(queue, commands) ==
    queue \o [i \in 1 .. Len(commands) |->
                [id |-> MaxId(queue) + i,
                 time |-> commands[i].at_t,
                 queue |-> commands[i].queue]]

\* The commands the daemon took: those whose "at" process did not fail.
RECURSIVE Accepted(_, _)
Accepted(commands, f) ==
    IF commands = <<>> THEN <<>>
    ELSE LET n == Len(commands)
             front == Accepted(SubSeq(commands, 1, n - 1), f)
         IN  IF n \in f THEN front ELSE Append(front, commands[n])

\* Jobs left in the switch queue by an earlier run for the same day: ON at
\* 05:00 and OFF at 06:00 market time.
StaleMarketTimes == <<5 * HourMins, 6 * HourMins>>

StaleQueue(d, z) ==
    [i \in 1 .. Len(StaleMarketTimes) |->
        [id |-> i,
         time |-> datetime_to_at(market_time_to_utc(StaleMarketTimes[i], d), z),
         queue |-> SwitchQueue]]

InitQueues(d, z) == {<<>>, StaleQueue(d, z)}

\* ------------------------------------------ AtQueueMember.from_queue
\* Jobs of one queue with their time in UTC, sorted by time (stable).
RECURSIVE InsertByDt(_, _)
InsertByDt(s, m) ==
    IF s = <<>> THEN <<m>>
    ELSE IF s[Len(s)].dt <= m.dt THEN Append(s, m)
    ELSE Append(InsertByDt(SubSeq(s, 1, Len(s) - 1), m), s[Len(s)])

RECURSIVE SortByDt(_)
SortByDt(s) ==
    IF s = <<>> THEN <<>>
    ELSE InsertByDt(SortByDt(SubSeq(s, 1, Len(s) - 1)), s[Len(s)])

\* from_queue_line for every line of "at -l", whatever its queue.
QueueLines_any_tag(queue, q, z) ==
    [i \in 1 .. Len(queue) |->
        [id |-> queue[i].id, dt |-> system_time_to_utc(queue[i].time, z),
         queue |-> queue[i].queue]]

\* from_queue_line for every line of "at -l" that is in the queue asked for.
RECURSIVE QueueLines(_, _, _)
QueueLines(queue, q, z) ==
    IF queue = <<>> THEN <<>>
    ELSE LET rest == QueueLines(Tail(queue), q, z)
             m == Head(queue)
         IN  IF m.queue = q
             THEN <<[id |-> m.id, dt |-> system_time_to_utc(m.time, z),
                     queue |-> m.queue]>> \o rest
             ELSE rest

\* from_queue with the position counted from the first member.
from_queue_forward(queue, q, z) ==
    LET members == SortByDt(QueueLines(queue, q, z))
    IN  [i \in 1 .. Len(members) |->
            [id |-> members[i].id, dt |-> members[i].dt, queue |-> members[i].queue,
             action |-> IF (i - 1) % 2 = 0 THEN "OFF" ELSE "ON"]]

\* from_queue with the two actions exchanged.
from_queue_on_last(queue, q, z) ==
    LET members == SortByDt(QueueLines(queue, q, z))
        n == Len(members)
    IN  [i \in 1 .. n |->
            [id |-> members[i].id, dt |-> members[i].dt, queue |-> members[i].queue,
             action |-> IF (n - i) % 2 = 0 THEN "ON" ELSE "OFF"]]

\* The action is set by position counted from the last member: OFF, ON, ...
from_queue(queue, q, z) ==
    LET members == SortByDt(QueueLines(queue, q, z))
        n == Len(members)
    IN  [i \in 1 .. n |->
            [id |-> members[i].id, dt |-> members[i].dt, queue |-> members[i].queue,
             action |-> IF (n - i) % 2 = 0 THEN "OFF" ELSE "ON"]]

\* ScheduleBuilder.retrieve_sched: the schedule rebuilt from the live queue;
\* an earliest event that is OFF is dropped.
retrieve_sched(queue, q, d, z) ==
    LET members == from_queue(queue, q, z)
        events == [i \in 1 .. Len(members) |->
                     <<IF members[i].action = "ON" THEN ON_EVENT ELSE OFF_EVENT,
                       utc_to_market_time(members[i].dt, d)>>]
    IN  IF events # <<>> /\ events[1][1] = OFF_EVENT THEN Tail(events) ELSE events

\* ------------------------------------------ AtWrapper.clear_queue_from
\* "atrm id" for every id in ids.
RECURSIVE RemoveIds(_, _)
RemoveIds(queue, ids) ==
    IF queue = <<>> THEN <<>>
    ELSE IF Head(queue).id \in ids THEN RemoveIds(Tail(queue), ids)
    ELSE <<Head(queue)>> \o RemoveIds(Tail(queue), ids)

\* The queue after clear_queue_from(q, dt): dt is moved to system time and
\* compared with mem.dt of every member from_queue returns.
clear_queue_from(queue, q, dt, z) ==
    LET threshold == utc_to_system_time(dt, z)
        members == from_queue(queue, q, z)
    IN  RemoveIds(queue, {members[i].id : i \in {j \in 1 .. Len(members) :
                                                   members[j].dt >= threshold}})

\* ---------------------------------------------------------------- actions
\* One call builder.add_heating_slice(start_time, num_mins).
AddSlice(start_time, num_mins, limit) ==
    /\ Len(added) < limit
    /\ LET r == add_heating_slice(sched, start_time, num_mins)
       IN  /\ sched' = r.sched
           /\ err' = r.err
           /\ added' = IF r.err = "none"
                       THEN Append(added, <<start_time, num_mins>>)
                       ELSE added
    /\ UNCHANGED <<pc, data, rem_minutes, cmds, atq, env, failed, others>>

\* A slice on an hour boundary, as do_fetch and the spec give it.
AddAlignedSlice ==
    \E h \in Hours, m \in SliceLens : AddSlice(h * HourMins, m, MaxSlices)

\* A slice starting anywhere on the quarter-hour grid (the scheduling tests).
AddFreeSlice ==
    \E t \in FreeStarts, m \in SliceLens : AddSlice(t, m, MaxFreeSlices)

\* A fresh builder, ScheduleBuilder(); nothing else of the program runs.
Init ==
    /\ sched = <<>>
    /\ added = <<>>
    /\ err = "none"
    /\ pc = "session"
    /\ data = <<>>
    /\ rem_minutes = 0
    /\ budget = 0
    /\ table = <<>>
    /\ cmds = <<>>
    /\ atq = <<>>
    /\ at_queue = SwitchQueue
    /\ dst = "winter"
    /\ sys = [timezone |-> 0, altzone |-> 0, daylight |-> 0]
    /\ failed = {}
    /\ OthersIdle

Next == AddAlignedSlice

\* A 60-minute slice on an hour boundary: sessions long enough to cover three
\* hours and then add a fourth slice.
AddHourSlice ==
    \E h \in Hours : AddSlice(h * HourMins, HourMins, MaxHourSlices)

NextHours == AddHourSlice

SpecHours == Init /\ [][NextHours]_vars

\* A whole hour starting at any quarter of the first MaxRunHours hours (the
\* elide tests of the scheduling suite).
AddRunSlice ==
    \E h \in 0 .. (MaxRunHours - 1), o \in MinOffsets :
        AddSlice(h * HourMins + o, HourMins, MaxRunSlices)

NextRun == AddRunSlice

SpecRun == Init /\ [][NextRun]_vars

Spec == Init /\ [][Next]_vars

\* builder.upload(prog_config), the whole call.  upload_command runs "at" with
\* subprocess.call and drops the exit status it returns: an "at" process that
\* fails (f) queues no job and raises nothing, and the loop goes on.
Upload ==
    /\ pc = "built"
    /\ LET r == upload(sched, at_queue, dst, sys)
       IN  /\ sched' = r.sched
           /\ err' = r.err
           /\ cmds' = cmds \o r.cmds
           /\ \E f \in SUBSET (1 .. Len(r.cmds)) :
                /\ failed' = f
                /\ atq' = Enqueue(atq, Accepted(r.cmds, f))
           /\ pc' = IF r.err = "none" THEN "uploaded" ELSE "failed"
    /\ UNCHANGED <<added, data, rem_minutes, env, others>>

\* upload called on any list a caller has put into builder.sched.
UploadEvents ==
    {<<k, h * HourMins>> : k \in {ON_EVENT, OFF_EVENT}, h \in 0 .. (MaxUploadHour - 1)}

InitUpload ==
    /\ sched \in UNION {[1 .. n -> UploadEvents] : n \in 0 .. MaxEvents}
    /\ added = <<>>
    /\ err = "none"
    /\ pc = "built"
    /\ data = <<>>
    /\ rem_minutes = 0
    /\ budget = 0
    /\ table = <<>>
    /\ cmds = <<>>
    /\ at_queue \in AtQueueValues \cup {OtherQueue}
    /\ dst \in DstModes
    /\ sys \in SysZones
    /\ atq \in InitQueues(dst, sys)
    /\ failed = {}
    /\ OthersIdle

NextUpload == Upload

SpecUpload == InitUpload /\ [][NextUpload]_vars

\* ------------------------------------------------------- fetch.do_fetch
\* min that always gives its second argument.
Min_second(a, b) == b

Min(a, b) == IF a < b THEN a ELSE b

\* sched_builder = ScheduleBuilder.retrieve_sched(prog_config)
\* rem_minutes = prog_config.get_heating_minutes(pricedata.weekday)
FetchRetrieve ==
    /\ pc = "start"
    /\ sched' = retrieve_sched(atq, SwitchQueue, dst, sys)
    /\ rem_minutes' = budget
    /\ pc' = "loop"
    /\ UNCHANGED <<added, err, data, cmds, atq, env, failed, others>>

\* A turn of the while loop with the upload call inside the loop body.
FetchSlice_uploading ==
    /\ pc = "loop"
    /\ rem_minutes > 0
    /\ data # <<>>
    /\ LET start_time == Head(data)[1]
           num_mins == Min(rem_minutes, HourMins)
           r == add_heating_slice(sched, start_time, num_mins)
           u == upload(r.sched, at_queue, dst, sys)
       IN  /\ data' = Tail(data)
           /\ sched' = u.sched
           /\ err' = u.err
           /\ added' = Append(added, <<start_time, num_mins>>)
           /\ rem_minutes' = rem_minutes - HourMins
           /\ cmds' = cmds \o u.cmds
           /\ atq' = Enqueue(atq, u.cmds)
           /\ pc' = "loop"
    /\ UNCHANGED <<env, failed, others>>

\* One turn of the while loop: pop_cheapest, add_heating_slice, rem_minutes -= 60.
FetchSlice ==
    /\ pc = "loop"
    /\ rem_minutes > 0
    /\ IF data = <<>>
       THEN \* self.data.pop(0) on an empty list
            /\ err' = "index_error"
            /\ pc' = "failed"
            /\ UNCHANGED <<sched, added, data, rem_minutes>>
       ELSE LET start_time == Head(data)[1]
                num_mins == Min(rem_minutes, HourMins)
                r == add_heating_slice(sched, start_time, num_mins)
            IN  /\ data' = Tail(data)
                /\ sched' = r.sched
                /\ err' = r.err
                /\ IF r.err = "none"
                   THEN /\ added' = Append(added, <<start_time, num_mins>>)
                        /\ rem_minutes' = rem_minutes - HourMins
                        /\ pc' = "loop"
                   ELSE /\ pc' = "failed"
                        /\ UNCHANGED <<added, rem_minutes>>
    /\ UNCHANGED <<cmds, atq, env, failed, others>>

\* sched_builder.upload(prog_config) once the budget is used up.
FetchUpload ==
    /\ pc = "loop"
    /\ rem_minutes <= 0
    /\ LET r == upload(sched, at_queue, dst, sys)
       IN  /\ sched' = r.sched
           /\ err' = r.err
           /\ cmds' = cmds \o r.cmds
           /\ \E f \in SUBSET (1 .. Len(r.cmds)) :
                /\ failed' = f
                /\ atq' = Enqueue(atq, Accepted(r.cmds, f))
           /\ pc' = IF r.err = "none" THEN "done" ELSE "failed"
    /\ UNCHANGED <<added, data, rem_minutes, env, others>>

\* Prices an hour can have.
PriceLevels == {1, 2, 3}

\* The price table of the day: one row per hour, in the order of the hours.
PriceTables ==
    {[i \in 1 .. MaxHour |-> <<(i - 1) * HourMins, prices[i]>>] :
        prices \in [1 .. MaxHour -> PriceLevels]}

\* PriceData.finalize without the sort.
finalize_unsorted(rows) == rows

\* PriceData.finalize: sorted(self.data, key=lambda x: x[1]), the stable sort
\* on the second field of a tuple.
finalize(rows) == SortByTime(rows)

\* The configuration is not checked for the sign of the minutes.
Budgets == {k * 30 : k \in (-1) .. MaxBudgetHalfHours}

InitFetch ==
    /\ sched = <<>>
    /\ added = <<>>
    /\ err = "none"
    /\ pc = "start"
    /\ table \in PriceTables
    /\ data = finalize(table)
    /\ rem_minutes = 0
    /\ budget \in Budgets
    /\ cmds = <<>>
    /\ at_queue \in AtQueueValues
    /\ dst \in DstModes
    /\ sys \in SysZones
    /\ atq \in InitQueues(dst, sys)
    /\ failed = {}
    /\ OthersIdle

NextFetch == FetchRetrieve \/ FetchSlice \/ FetchUpload

SpecFetch == InitFetch /\ [][NextFetch]_vars

\* Budgets of three hours and more, up to MaxOverHalfHours half hours beyond
\* the hours the price table has.
LongBudgets ==
    {k * 30 : k \in 6 .. (2 * MaxHour + MaxOverHalfHours)}

\* A fetch run with a long budget on a day without a clock change, on an
\* empty queue, with a configuration that holds at_queue.
InitFetchLong ==
    /\ sched = <<>>
    /\ added = <<>>
    /\ err = "none"
    /\ pc = "start"
    /\ table \in PriceTables
    /\ data = finalize(table)
    /\ rem_minutes = 0
    /\ budget \in LongBudgets
    /\ cmds = <<>>
    /\ at_queue = SwitchQueue
    /\ dst \in {"winter", "summer"}
    /\ sys \in SysZones
    /\ atq = <<>>
    /\ failed = {}
    /\ OthersIdle

SpecFetchLong == InitFetchLong /\ [][NextFetch]_vars

\* ------------------------------------------- processes and the lock file
\* Two fetch processes (cron and a hand-started one) and one setup process run
\* side by side; a step is one subprocess call on the queue.
IsFetch(p) == p \in {"fetch1", "fetch2"}

\* The one run followed by pc and the adapter call record: no process step of
\* this part touches them.
one_run == <<sched, added, err, pc, data, rem_minutes, cmds, env, failed, qcall,
             config_tree, crontab, ret, pin, fired>>

\* "with pid_handle:" can be entered.  PidFile creates and locks the file
\* without waiting and raises when another process holds it.
script_pidfile_unchecked(l) == TRUE

script_pidfile(l) == l = Free

\* "with at.queue_pidfile():" of do_setup can be entered: the same lock file.
queue_pidfile(l) == l = Free

Started(p, k) == [procs EXCEPT ![p] = [pc |-> "locked", n |-> 0, todo |-> k]]
Refused(p) == [procs EXCEPT ![p] = [pc |-> "refused", n |-> @.n, todo |-> 0]]
Stepped(p) == [procs EXCEPT ![p] = [pc |-> "locked", n |-> @.n + 1, todo |-> @.todo - 1]]
Ended(p) == [procs EXCEPT ![p] = [pc |-> "done", n |-> @.n, todo |-> 0]]

\* fetch.py __main__: "with pid_handle:" is entered before main() runs; the
\* schedule main() will upload has up to MaxInserts events.
FetchStart(p) ==
    /\ IsFetch(p)
    /\ procs[p].pc = "idle"
    /\ IF script_pidfile(lock)
       THEN /\ lock' = p
            /\ \E k \in 0 .. MaxInserts : procs' = Started(p, k)
       ELSE /\ procs' = Refused(p)
            /\ UNCHANGED <<lock, one_run>>
    /\ UNCHANGED <<atq, one_run>>

\* One upload_command of the upload inside main().
FetchInsert(p) ==
    /\ IsFetch(p)
    /\ procs[p].pc = "locked"
    /\ procs[p].todo > 0
    /\ LET n == procs[p].n
           c == upload_command(SwitchQueue,
                               IF n % 2 = 0 THEN ON_EVENT ELSE OFF_EVENT,
                               market_time_to_utc(n * HourMins, dst), sys)
       IN  atq' = Enqueue(atq, <<c>>)
    /\ procs' = Stepped(p)
    /\ UNCHANGED <<lock, one_run>>

\* main() returns and the with block is left: the lock file is removed.
FetchEnd(p) ==
    /\ IsFetch(p)
    /\ procs[p].pc = "locked"
    /\ procs[p].todo = 0
    /\ lock' = Free
    /\ procs' = Ended(p)
    /\ UNCHANGED <<atq, one_run>>

\* Positions in the queue of the jobs of the switch queue.
SwitchJobs == {i \in 1 .. Len(atq) : atq[i].queue = SwitchQueue}

\* do_setup on an existing configuration reaches "with at.queue_pidfile():"
\* and lists the jobs of the old switch queue.
SetupStart ==
    /\ procs["setup"].pc = "idle"
    /\ IF queue_pidfile(lock)
       THEN /\ lock' = "setup"
            /\ procs' = Started("setup", Cardinality(SwitchJobs))
       ELSE /\ procs' = Refused("setup")
            /\ UNCHANGED <<lock, one_run>>
    /\ UNCHANGED <<atq, one_run>>

\* do_setup without a configuration file: old_switch_queue is None and the
\* queue is not touched.
SetupNew ==
    /\ procs["setup"].pc = "idle"
    /\ procs' = Ended("setup")
    /\ UNCHANGED <<lock, atq, one_run>>

\* One turn of do_setup's loop: remove_member, then add_switch_command at the
\* time of the job removed.
SetupRequeue ==
    /\ procs["setup"].pc = "locked"
    /\ procs["setup"].todo > 0
    /\ SwitchJobs # {}
    /\ LET i == CHOOSE j \in SwitchJobs : \A k \in SwitchJobs : j <= k
           kept == [j \in 1 .. (Len(atq) - 1) |-> IF j < i THEN atq[j] ELSE atq[j + 1]]
       IN  atq' = Append(kept, [id |-> MaxId(atq) + 1,
                                time |-> atq[i].time,
                                queue |-> SwitchQueue])
    /\ procs' = Stepped("setup")
    /\ UNCHANGED <<lock, one_run>>

SetupEnd ==
    /\ procs["setup"].pc = "locked"
    /\ procs["setup"].todo = 0 \/ SwitchJobs = {}
    /\ lock' = Free
    /\ procs' = Ended("setup")
    /\ UNCHANGED <<atq, one_run>>

InitLock ==
    /\ sched = <<>>
    /\ added = <<>>
    /\ err = "none"
    /\ pc = "processes"
    /\ data = <<>>
    /\ rem_minutes = 0
    /\ budget = 0
    /\ table = <<>>
    /\ cmds = <<>>
    /\ at_queue = SwitchQueue
    /\ dst = "winter"
    /\ sys \in SysZones
    /\ atq \in InitQueues(dst, sys)
    /\ failed = {}
    /\ OthersIdle

NextLock ==
    \/ \E p \in Procs : FetchStart(p) \/ FetchInsert(p) \/ FetchEnd(p)
    \/ SetupStart
    \/ SetupNew
    \/ SetupRequeue
    \/ SetupEnd

SpecLock == InitLock /\ [][NextLock]_vars

\* ------------------------------------------------------------ switch.py
\* pin_state of main(): HIGH for ON, LOW for OFF, exchanged under
\* hardware.reverse_polarity.
pin_state(action, reverse_polarity) ==
    IF (action = "ON") # reverse_polarity THEN "HIGH" ELSE "LOW"

\* "at" starts a queued switch job: switch.py -a action; __main__ enters
\* "with pid_handle:" on the lock file the fetch script uses.
SwitchFire ==
    /\ procs["switch"].pc = "idle"
    /\ \E action \in {"ON", "OFF"}, reverse_polarity \in BOOLEAN :
         fired' = [action |-> action, reverse_polarity |-> reverse_polarity]
    /\ IF script_pidfile(lock)
       THEN /\ lock' = "switch"
            /\ procs' = Started("switch", 1)
       ELSE /\ procs' = Refused("switch")
            /\ UNCHANGED lock
    /\ UNCHANGED <<sched, added, err, pc, data, rem_minutes, cmds, atq, env, failed,
                   qcall, config_tree, crontab, ret, pin>>

\* main(): GPIO.output(out_pin, pin_state)
SwitchOutput ==
    /\ procs["switch"].pc = "locked"
    /\ procs["switch"].todo > 0
    /\ pin' = pin_state(fired.action, fired.reverse_polarity)
    /\ procs' = Stepped("switch")
    /\ UNCHANGED <<sched, added, err, pc, data, rem_minutes, cmds, atq, env, failed,
                   qcall, lock, config_tree, crontab, ret, fired>>

\* main() returns and the with block is left.
SwitchEnd ==
    /\ procs["switch"].pc = "locked"
    /\ procs["switch"].todo = 0
    /\ lock' = Free
    /\ procs' = Ended("switch")
    /\ UNCHANGED <<sched, added, err, pc, data, rem_minutes, cmds, atq, env, failed,
                   qcall, config_tree, crontab, ret, pin, fired>>

\* Fetch runs and one switch job side by side.
NextSwitch ==
    \/ \E p \in Procs : FetchStart(p) \/ FetchInsert(p) \/ FetchEnd(p)
    \/ SwitchFire
    \/ SwitchOutput
    \/ SwitchEnd

SpecSwitch == InitLock /\ [][NextSwitch]_vars

\* ------------------------------------------------- calls on the adapter
\* System times of the jobs, and the UTC instants given to clear_queue_from.
QueueTimes == {0, HourMins, 2 * HourMins, 3 * HourMins}
ClearTimes == {-HourMins, HourMins}

\* AtQueueMember.from_queue(switch_queue)
ListQueue ==
    /\ pc = "start"
    /\ qcall' = [op |-> "from_queue", result |-> from_queue(atq, SwitchQueue, sys)]
    /\ pc' = "listed"
    /\ UNCHANGED <<sched, added, err, data, rem_minutes, cmds, atq, env, failed,
                   lock, procs, pin, fired, config_tree, crontab, ret>>

\* AtWrapper.clear_queue_from(switch_queue, t)
ClearQueueFrom ==
    /\ pc = "start"
    /\ \E t \in ClearTimes :
         /\ atq' = clear_queue_from(atq, SwitchQueue, t, sys)
         /\ qcall' = [op |-> "clear_queue_from", queue |-> SwitchQueue, t |-> t,
                      before |-> atq]
    /\ pc' = "cleared"
    /\ UNCHANGED <<sched, added, err, data, rem_minutes, cmds, env, failed,
                   lock, procs, pin, fired, config_tree, crontab, ret>>

\* AtWrapper.schedule_member(command, dt, queue): one "at -q queue -t time"
\* process; its exit status is not looked at, inserted records whether the
\* daemon took the job.
ScheduleTimes == {-HourMins, 0, 90}
ScheduleMember ==
    /\ pc = "start"
    /\ Len(atq) < MaxMembers
    /\ \E dt \in ScheduleTimes, queue \in {SwitchQueue, OtherQueue}, inserted \in BOOLEAN :
         /\ atq' = IF inserted
                   THEN Enqueue(atq, <<[queue |-> queue, at_t |-> datetime_to_at(dt, sys)]>>)
                   ELSE atq
         /\ qcall' = [op |-> "schedule_member", dt |-> dt, queue |-> queue,
                      inserted |-> inserted]
    /\ pc' = "scheduled"
    /\ UNCHANGED <<sched, added, err, data, rem_minutes, cmds, env, failed,
                   lock, procs, pin, fired, config_tree, crontab, ret>>

\* at.queue_filter(at.get_at_queue_members(), old_switch_queue): the lines
\* of "at -l" that are in the queue, parsed, in the order "at" prints them.
queue_filter(queue, q, z) == QueueLines(queue, q, z)

\* The loop of do_setup over the members listed: member i is removed and
\* scheduled again at its dt with "OFF" if i % 2 == 0 else "ON" (i from 0).
\* issued holds, per member, its old id, the dt and the action given.
RequeueIssued(members) ==
    [k \in 1 .. Len(members) |->
        [id |-> members[k].id, dt |-> members[k].dt,
         action |-> IF (k - 1) % 2 = 0 THEN "OFF" ELSE "ON"]]

RECURSIVE RequeueAll(_, _, _, _)
RequeueAll(queue, issued, q, z) ==
    IF issued = <<>> THEN queue
    ELSE RequeueAll(
             Enqueue(RemoveIds(queue, {Head(issued).id}),
                     <<[queue |-> q, at_t |-> datetime_to_at(Head(issued).dt, z)]>>),
             Tail(issued), q, z)

\* do_setup on an existing configuration, "(Re)set switch atjobs".
RequeueSwitchJobs ==
    /\ pc = "start"
    /\ LET issued == RequeueIssued(queue_filter(atq, SwitchQueue, sys))
       IN  /\ atq' = RequeueAll(atq, issued, SwitchQueue, sys)
           /\ qcall' = [op |-> "requeue", issued |-> issued,
                        before |-> from_queue(atq, SwitchQueue, sys)]
    /\ pc' = "requeued"
    /\ UNCHANGED <<sched, added, err, data, rem_minutes, cmds, env, failed,
                   lock, procs, pin, fired, config_tree, crontab, ret>>

\* Any "at -l" listing of up to MaxMembers jobs, in the order "at" prints it.
InitQueue ==
    /\ sched = <<>>
    /\ added = <<>>
    /\ err = "none"
    /\ pc = "start"
    /\ data = <<>>
    /\ rem_minutes = 0
    /\ budget = 0
    /\ table = <<>>
    /\ cmds = <<>>
    /\ at_queue = SwitchQueue
    /\ dst = "winter"
    /\ sys \in SysZones
    /\ \E n \in 0 .. MaxMembers :
         \E times \in [1 .. n -> QueueTimes], tags \in [1 .. n -> {SwitchQueue, OtherQueue}] :
            atq = [i \in 1 .. n |-> [id |-> i, time |-> times[i], queue |-> tags[i]]]
    /\ failed = {}
    /\ OthersIdle

NextQueue ==
    ListQueue \/ ClearQueueFrom \/ FetchRetrieve \/ ScheduleMember \/ RequeueSwitchJobs

SpecQueue == InitQueue /\ [][NextQueue]_vars

NextFree == AddFreeSlice

SpecFree == Init /\ [][NextFree]_vars

\* --------------------------------------- ProgramConfig.__init__ and main
\* The values a file can give fetch.region_code: an accepted name in upper,
\* lower or mixed case, a name that is not a region, and a number.
RegionCodes ==
    {[name |-> "EE", case |-> "upper"], [name |-> "EE", case |-> "lower"],
     [name |-> "SE3", case |-> "mixed"], [name |-> "XX", case |-> "upper"],
     [name |-> "5", case |-> "number"]}

\* What a file can hold for section i: nothing, a value that is not a table,
\* or a table lacking at most MaxMissing of the required keys.
SectionValues(i) ==
    LET req == Range(CONFIG_REQ_KEYS[i].keys)
    IN  {Absent, Scalar}
          \cup {Table(req \ gone) : gone \in {g \in SUBSET req : Cardinality(g) <= MaxMissing}}

Complete(i) == Table(Range(CONFIG_REQ_KEYS[i].keys))

\* The section values of the parsed files from section i on, with at most
\* damaged sections that differ from the complete one.
RECURSIVE SectionsFrom(_, _)
SectionsFrom(i, damaged) ==
    IF i > Len(CONFIG_REQ_KEYS) THEN {<<>>}
    ELSE UNION {{<<v>> \o rest :
                    rest \in SectionsFrom(i + 1, IF v = Complete(i) THEN damaged
                                                 ELSE damaged - 1)} :
                v \in IF damaged > 0 THEN SectionValues(i) ELSE {Complete(i)}}

ConfigTrees ==
    {[sections |-> secs, region |-> r] :
        secs \in SectionsFrom(1, MaxDamaged), r \in RegionCodes}

\* ProgramConfig(config_tree, source_file): validate, exit on a rejection; an
\* exception of the check ends the process with a traceback.
ProgramConfig ==
    /\ pc = "load"
    /\ ret' = check_config(config_tree)
    /\ pc' = IF ret'.exc # "none" THEN "crashed"
             ELSE IF ~ret'.ok THEN "exited"
             ELSE "configured"
    /\ UNCHANGED <<sched, added, err, data, rem_minutes, cmds, atq, env, failed,
                   qcall, lock, procs, pin, fired, config_tree, crontab>>

\* main after from_file returned: the core (do_fetch, do_switch) starts.
RunCore ==
    /\ pc = "configured"
    /\ pc' = "core"
    /\ UNCHANGED <<sched, added, err, data, rem_minutes, cmds, atq, env, failed, others>>

InitConfig ==
    /\ sched = <<>>
    /\ added = <<>>
    /\ err = "none"
    /\ pc = "load"
    /\ data = <<>>
    /\ rem_minutes = 0
    /\ budget = 0
    /\ table = <<>>
    /\ cmds = <<>>
    /\ atq = <<>>
    /\ at_queue = SwitchQueue
    /\ dst = "winter"
    /\ sys = "utc"
    /\ failed = {}
    /\ qcall = NoCall
    /\ lock = Free
    /\ procs = [p \in Procs |-> NotStarted]
    /\ pin = Unset
    /\ fired = NoJob
    /\ config_tree \in ConfigTrees
    /\ crontab = <<>>
    /\ ret = NoCall

NextConfig == ProgramConfig \/ RunCore

SpecConfig == InitConfig /\ [][NextConfig]_vars

\* ------------------------------------------------- manage.CronWrapper
FETCH_CRON_COMMENT == "smart-heater-fetch"
OtherComment == "backup"

\* datetime(1970, 1, 1, 21, 30), minutes after midnight of that day
Market2130 == 21 * HourMins + 30

\* 1 January is in CET whatever the day the function is called on.
get_21_30_market_as_sys(z) ==
    utc_to_system_time(market_time_to_utc(Market2130, "winter"), z)

\* datetime.minute and datetime.hour
minute(t) == (t % DayMins) % HourMins
hour(t) == (t % DayMins) \div HourMins

\* cron.remove_all(comment=comment)
clear_fetch_cronjob(cron, comment) ==
    SelectSeq(cron, LAMBDA job : job.comment # comment)

\* cron.new(command, comment) and fetch_job.setall("minute hour * * *")
add_fetch_cronjob(cron, z, comment) ==
    LET sys_21_30 == get_21_30_market_as_sys(z)
    IN  Append(cron, [comment |-> comment, command |-> "fetch",
                      minute |-> minute(sys_21_30), hour |-> hour(sys_21_30)])

\* What the crontab can hold before setup runs: entries of earlier setups,
\* possibly made under another system clock, and entries of the user.
CronHours == {20, 23}
CronJobs ==
    {[comment |-> c, command |-> IF c = FETCH_CRON_COMMENT THEN "fetch" ELSE "other",
      minute |-> 30, hour |-> h] :
        c \in {FETCH_CRON_COMMENT, OtherComment}, h \in CronHours}
CronTabs == UNION {[1 .. n -> CronJobs] : n \in 0 .. MaxCronJobs}

\* do_setup, "(Re)set fetch cronjob"; ret counts the runs of setup.
ResetFetchCronjob ==
    /\ pc = "setup"
    /\ ret.n < MaxSetupRuns
    /\ crontab' = add_fetch_cronjob(clear_fetch_cronjob(crontab, FETCH_CRON_COMMENT),
                                    sys, FETCH_CRON_COMMENT)
    /\ ret' = [op |-> "setup", n |-> ret.n + 1]
    /\ UNCHANGED <<sched, added, err, pc, data, rem_minutes, cmds, atq, env, failed,
                   qcall, lock, procs, pin, fired, config_tree>>

InitCron ==
    /\ sched = <<>>
    /\ added = <<>>
    /\ err = "none"
    /\ pc = "setup"
    /\ data = <<>>
    /\ rem_minutes = 0
    /\ budget = 0
    /\ table = <<>>
    /\ cmds = <<>>
    /\ atq = <<>>
    /\ at_queue = SwitchQueue
    /\ dst \in {"winter", "summer"}
    /\ sys \in SysZones
    /\ failed = {}
    /\ qcall = NoCall
    /\ lock = Free
    /\ procs = [p \in Procs |-> NotStarted]
    /\ pin = Unset
    /\ fired = NoJob
    /\ config_tree = ValidConfig
    /\ crontab \in CronTabs
    /\ ret = [op |-> "setup", n |-> 0]

NextCron == ResetFetchCronjob

SpecCron == InitCron /\ [][NextCron]_vars

\* ------------------------------------- ProgramConfig.get_heating_minutes
\* Orders in which a file can list the seven weekday keys: the order of
\* WEEKDAY_KEYS, its rotations, and two neighbours exchanged.
Rotated(seq, r) == [i \in 1 .. Len(seq) |-> seq[((i - 1 + r) % Len(seq)) + 1]]
Swapped(seq, k) ==
    [i \in 1 .. Len(seq) |-> IF i = k THEN seq[k + 1] ELSE IF i = k + 1 THEN seq[k] ELSE seq[i]]
KeyOrders ==
    {Rotated(WEEKDAY_KEYS, r) : r \in 0 .. (Len(WEEKDAY_KEYS) - 1)}
      \cup {Swapped(WEEKDAY_KEYS, k) : k \in 1 .. (Len(WEEKDAY_KEYS) - 1)}

\* Minutes a day can be given: whole hours up to MaxDayHours.
DayMinutes == {h * HourMins : h \in 0 .. MaxDayHours}

\* The heating-schedule table as toml.load gives it: the rows <<key, minutes>>
\* in the order of the file (a dict keeps the order of insertion).
HeatingTables ==
    {[i \in 1 .. Len(order) |-> <<order[i], mins[i]>>] :
        order \in KeyOrders, mins \in [1 .. Len(WEEKDAY_KEYS) -> DayMinutes]}

\* list(self["heating-schedule"].values())[weekday]
get_heating_minutes(heating, weekday) == heating[weekday + 1][2]

GetHeatingMinutes ==
    /\ pc = "configured"
    /\ \E weekday \in 0 .. (Len(WEEKDAY_KEYS) - 1) :
         ret' = [op |-> "get_heating_minutes", weekday |-> weekday,
                 minutes |-> get_heating_minutes(config_tree.heating, weekday)]
    /\ pc' = "asked"
    /\ UNCHANGED <<sched, added, err, data, rem_minutes, cmds, atq, env, failed,
                   qcall, lock, procs, pin, fired, config_tree, crontab>>

\* A validated configuration whose heating-schedule is any of HeatingTables.
InitMinutes ==
    /\ sched = <<>>
    /\ added = <<>>
    /\ err = "none"
    /\ pc = "configured"
    /\ data = <<>>
    /\ rem_minutes = 0
    /\ budget = 0
    /\ table = <<>>
    /\ cmds = <<>>
    /\ atq = <<>>
    /\ at_queue = SwitchQueue
    /\ dst = "winter"
    /\ sys = [timezone |-> 0, altzone |-> 0, daylight |-> 0]
    /\ failed = {}
    /\ qcall = NoCall
    /\ lock = Free
    /\ procs = [p \in Procs |-> NotStarted]
    /\ pin = Unset
    /\ fired = NoJob
    /\ \E heating \in HeatingTables :
         config_tree = [sections |-> ValidConfig.sections, region |-> ValidConfig.region,
                        heating |-> heating]
    /\ crontab = <<>>
    /\ ret = NoCall

NextMinutes == GetHeatingMinutes

SpecMinutes == InitMinutes /\ [][NextMinutes]_vars

\* ------------------------------------------------- ProgramConfig.__eq__
\* A node of a configuration tree: a number, or a dict from keys to nodes.
\* Trees here have up to two entries at the top, each a number or a dict of
\* up to two numbers.
Number(v) == [type |-> "int", v |-> v]
Dict(items) == [type |-> "dict", items |-> items]
EntryNames == {"fetch", "hardware"}
KeyNames == {"url", "switch_pin"}
Numbers == {Number(v) : v \in 1 .. MaxValue}
LeafDicts == {Dict(items) : items \in UNION {[K -> Numbers] : K \in SUBSET KeyNames}}
Trees ==
    {Dict(items) : items \in UNION {[E -> Numbers \cup LeafDicts] : E \in SUBSET EntryNames}}

\* recurse(subtree_a, subtree_b) of __eq__; the trees hold no list.
RECURSIVE recurse(_, _)
recurse(subtree_a, subtree_b) ==
    IF subtree_a.type # subtree_b.type THEN FALSE
    ELSE IF subtree_b.type = "dict"
    THEN \/ Cardinality(DOMAIN subtree_a.items) # Cardinality(DOMAIN subtree_b.items)
         \/ \E key \in DOMAIN subtree_a.items : key \notin DOMAIN subtree_b.items
         \/ \E key \in DOMAIN subtree_a.items :
               recurse(subtree_a.items[key], subtree_b.items[key])
    ELSE subtree_a.v = subtree_b.v

\* self == other
CompareConfigs ==
    /\ pc = "configured"
    /\ \E other \in Trees :
         ret' = [op |-> "eq", other |-> other,
                 result |-> recurse(config_tree.tree, other)]
    /\ pc' = "compared"
    /\ UNCHANGED <<sched, added, err, data, rem_minutes, cmds, atq, env, failed,
                   qcall, lock, procs, pin, fired, config_tree, crontab>>

InitCompare ==
    /\ sched = <<>>
    /\ added = <<>>
    /\ err = "none"
    /\ pc = "configured"
    /\ data = <<>>
    /\ rem_minutes = 0
    /\ budget = 0
    /\ table = <<>>
    /\ cmds = <<>>
    /\ atq = <<>>
    /\ at_queue = SwitchQueue
    /\ dst = "winter"
    /\ sys = [timezone |-> 0, altzone |-> 0, daylight |-> 0]
    /\ failed = {}
    /\ qcall = NoCall
    /\ lock = Free
    /\ procs = [p \in Procs |-> NotStarted]
    /\ pin = Unset
    /\ fired = NoJob
    /\ \E tree \in Trees :
         config_tree = [sections |-> ValidConfig.sections, region |-> ValidConfig.region,
                        tree |-> tree]
    /\ crontab = <<>>
    /\ ret = NoCall

NextCompare == CompareConfigs

SpecCompare == InitCompare /\ [][NextCompare]_vars

\* ------------------------------------------------- helpers of the claims
Sorted == SortByTime(sched)

\* Kinds alternate ON, OFF, ..., first ON, last OFF, times strictly increase.
StrictlyAlternating(s) ==
    /\ Len(s) % 2 = 0
    /\ \A i \in 1 .. Len(s) : s[i][1] = (IF i % 2 = 1 THEN ON_EVENT ELSE OFF_EVENT)
    /\ \A i \in 1 .. (Len(s) - 1) : s[i][2] < s[i + 1][2]

AddedStarts == {added[i][1] : i \in 1 .. Len(added)}
AllFullHours == \A i \in 1 .. Len(added) : added[i][2] = HourMins
DistinctStarts == Cardinality(AddedStarts) = Len(added)

\* Number of maximal runs of consecutive hours among the slices added.
RunCount == Cardinality({t \in AddedStarts : (t - HourMins) \notin AddedStarts})

\* C1: after every add_heating_slice call that returns without raising (slices
\* on hour boundaries, 0 < num_mins <= 60), the schedule sorted by time
\* alternates ON, OFF, ..., starts with ON, ends with OFF, and no two events
\* have the same timestamp.
C1_AlternationAfterEveryCall ==
    err = "none" => StrictlyAlternating(Sorted)

\* C2: N consecutive 60-minute slices covering [H, H + N h), added to an empty
\* schedule in any order, leave exactly the pair (ON, H), (OFF, H + N h).
C2_OrderIndependence ==
    \A H \in Hours, N \in 1 .. MaxSlices :
        ( /\ Len(added) = N
          /\ AllFullHours
          /\ AddedStarts = {(H + k) * HourMins : k \in 0 .. (N - 1)} )
        => Sorted = << <<ON_EVENT, H * HourMins>>,
                       <<OFF_EVENT, (H + N) * HourMins>> >>

\* C3: after 60-minute slices on pairwise distinct hours, in any order, the
\* schedule holds as many ON/OFF pairs as there are maximal runs of consecutive
\* hours among the slices.
C3_FewestTransitions ==
    (AllFullHours /\ DistinctStarts) => Len(sched) = 2 * RunCount

\* C4: one 60-minute slice starting at H, added to an empty schedule, gives
\* exactly the two events (ON, H) and (OFF, H + 1h).
C4_SingleHour ==
    (Len(added) = 1 /\ added[1][2] = HourMins)
    => sched = << <<ON_EVENT, added[1][1]>>,
                  <<OFF_EVENT, added[1][1] + HourMins>> >>

C4_Witness ==
    /\ Len(added) = 1
    /\ added[1] = <<HourMins + 15, HourMins>>
    /\ Len(sched) = 2
    /\ err = "none"

\* C5: a fragment of f minutes at hour 0 followed by a 60-minute slice at hour
\* 1 leaves exactly the pair (ON, 1h - f), (OFF, 2h).
C5_FragmentBeforeBlock ==
    \A f \in FragLens :
        added = << <<0, f>>, <<HourMins, HourMins>> >>
        => Sorted = << <<ON_EVENT, HourMins - f>>, <<OFF_EVENT, 2 * HourMins>> >>

\* C6: a 60-minute slice at hour 0 followed by a fragment of f minutes that
\* starts at 1h + (60 - f) min leaves exactly the pair (ON, 0), (OFF, 1h + f).
C6_FragmentAfterBlock ==
    \A f \in FragLens :
        added = << <<0, HourMins>>, <<2 * HourMins - f, f>> >>
        => Sorted = << <<ON_EVENT, 0>>, <<OFF_EVENT, HourMins + f>> >>

\* Every job in the queue was submitted by this run: the run started on an
\* empty queue.
StartedOnEmptyQueue == Len(atq) + Cardinality(failed) = Len(cmds)

\* The schedule holding exactly the heating intervals [a, a + m) and [b, b + n).
TwoPairs(a, m, b, n) ==
    IF a < b
    THEN << <<ON_EVENT, a>>, <<OFF_EVENT, a + m>>, <<ON_EVENT, b>>, <<OFF_EVENT, b + n>> >>
    ELSE << <<ON_EVENT, b>>, <<OFF_EVENT, b + n>>, <<ON_EVENT, a>>, <<OFF_EVENT, a + m>> >>

\* C7: with a 90-minute budget a fetch run (on an empty queue) heats the
\* cheapest hour H for 60 minutes and the second-cheapest hour G for 30: when
\* G = H + 1h the schedule is the single pair [H, H + 1h30); when G is not
\* adjacent to H it is the two pairs [H, H + 1h) and [G, G + 30min).
C7_NinetyMinuteBudget ==
    \A H, G \in {h * HourMins : h \in Hours} :
        ( /\ added = << <<H, HourMins>>, <<G, 30>> >>
          /\ StartedOnEmptyQueue )
        => /\ rem_minutes <= 0
           /\ G = H + HourMins
                => Sorted = << <<ON_EVENT, H>>, <<OFF_EVENT, H + 90>> >>
           /\ (G # H + HourMins /\ G # H - HourMins)
                => Sorted = TwoPairs(H, HourMins, G, 30)

C7_Witness ==
    /\ added = << <<HourMins, HourMins>>, <<2 * HourMins, 30>> >>
    /\ StartedOnEmptyQueue
    /\ pc = "done"
    /\ Len(cmds) = 2
    /\ sched = << <<ON_EVENT, HourMins>>, <<OFF_EVENT, 2 * HourMins + 30>> >>

\* The list is not ON-first and OFF-last once sorted by time.
FailsValidation(s) ==
    s # <<>> /\ (SortByTime(s)[1][1] # ON_EVENT \/ SortByTime(s)[Len(s)][1] # OFF_EVENT)

\* C8: upload on a non-empty schedule whose time-sorted first event is not ON,
\* or whose last event is not OFF, raises the internal-consistency error and
\* has issued no command to the queue.
C8_UploadValidation ==
    [][ (pc = "built" /\ FailsValidation(sched))
        => /\ err' \in {"no_on_first", "no_off_last"}
           /\ cmds' = cmds
           /\ atq' = atq ]_vars

C8_Witness ==
    /\ pc = "failed"
    /\ err = "no_on_first"
    /\ Len(sched) = 3
    /\ sched[1][1] = OFF_EVENT
    /\ cmds = <<>>

\* Midnight of the date that contains market time t.
DayStart(t) == (t \div DayMins) * DayMins

\* Jobs of the switch queue at or after UTC instant t.
JobsFrom(t) ==
    {i \in 1 .. Len(atq) :
        atq[i].queue = SwitchQueue /\ system_time_to_utc(atq[i].time, sys) >= t}

\* C9: upload removes every job of the queue tag at or after market-time
\* midnight of the first event's date before it inserts, so after an upload
\* the jobs of the tag from that midnight on are exactly the ones inserted.
C9_ClearBeforeInsert ==
    (pc = "uploaded" /\ sched # <<>>)
    => Cardinality(JobsFrom(market_time_to_utc(DayStart(sched[1][2]), dst))) = Len(cmds)

\* C10: for a schedule that passes validation, upload submits exactly one
\* insert per event, in chronological order, ON for an ON event and OFF for an
\* OFF event, at the event's market time converted to UTC.
C10_OneInsertPerEvent ==
    (pc # "built" /\ sched # <<>> /\ ~FailsValidation(sched))
    => /\ Len(cmds) = Len(sched)
       /\ \A i \in 1 .. Len(sched) :
            /\ i < Len(sched) => sched[i][2] <= sched[i + 1][2]
            /\ sched[i][1] = ON_EVENT => cmds[i].action = "ON"
            /\ sched[i][1] = OFF_EVENT => cmds[i].action = "OFF"
            /\ cmds[i].dt = sched[i][2] - MarketOffsetOfWall(sched[i][2], dst)
            /\ system_time_to_utc(cmds[i].at_t, sys) = cmds[i].dt

\* C11: when an "at" process fails during upload, the call stops there with an
\* error that reaches the caller: the run has failed and the failed command is
\* the last one submitted.
C11_FailureStopsUpload ==
    \A i \in failed :
        /\ pc = "failed"
        /\ err # "none"
        /\ i = Len(cmds)

\* Number of events this run has put into the queue.
Inserted == Len(cmds) - Cardinality(failed)

\* C12: a fetch run is all-or-nothing: when it has ended, either every event
\* of a schedule that passed validation is in the queue, or the run has
\* inserted no event at all.
C12_AllOrNothing ==
    pc \in {"done", "failed"}
    => \/ Inserted = 0
       \/ /\ Inserted = Len(sched)
          /\ ~FailsValidation(sched)

\* C13: whatever the interleaving of the fetch and setup processes, a change
\* of the queue is made by a process that holds the lock file, and at most
\* one process is inside its locked section at a time.
C13_MutationsUnderLock ==
    [][ /\ atq' # atq
           => \E p \in Procs : /\ lock = p
                               /\ procs[p].pc = "locked"
                               /\ procs'[p].n = procs[p].n + 1
        /\ Cardinality({p \in Procs : procs'[p].pc = "locked"}) <= 1 ]_vars

C13_Witness ==
    /\ procs["fetch1"].pc = "refused"
    /\ procs["setup"].pc = "done"
    /\ procs["setup"].n = 2
    /\ procs["fetch2"].pc = "locked"
    /\ procs["fetch2"].n = 1
    /\ lock = "fetch2"

\* The members from_queue has returned, earliest first.
Listed == qcall.result

\* C14: from_queue gives the most recent member of the tag OFF, the one before
\* it ON, and so on alternating backward, whatever the number of members.
C14_MostRecentIsOff ==
    pc = "listed"
    => /\ Len(Listed) = Cardinality(SwitchJobs)
       /\ \A i \in 1 .. (Len(Listed) - 1) :
            /\ Listed[i].dt <= Listed[i + 1].dt
            /\ Listed[i].action # Listed[i + 1].action
       /\ Listed # <<>> => Listed[Len(Listed)].action = "OFF"
       /\ \A i \in 1 .. Len(Listed) : Listed[i].action \in {"ON", "OFF"}

C14_Witness ==
    /\ pc = "listed"
    /\ Len(atq) = 4
    /\ Len(Listed) = 3
    /\ atq[1].queue = SwitchQueue
    /\ atq[1].time = 3 * HourMins
    /\ Listed[3].id = 1
    /\ Listed[1].action = "OFF"

\* The actions of the members listed, earliest first.
ListedActions == [i \in 1 .. Len(Listed) |-> Listed[i].action]
ListedTimesDiffer == \A i \in 1 .. (Len(Listed) - 1) : Listed[i].dt < Listed[i + 1].dt

\* C15 as amended: of 4 members at T1 < T2 < T3 < T4 from_queue makes T4 OFF,
\* T3 ON, T2 OFF and T1 ON; of 3 members it makes T3 OFF, T2 ON and T1 OFF.
C15_BackwardParity ==
    (pc = "listed" /\ ListedTimesDiffer)
    => /\ Len(Listed) = 4 => ListedActions = <<"ON", "OFF", "ON", "OFF">>
       /\ Len(Listed) = 3 => ListedActions = <<"OFF", "ON", "OFF">>

\* C15 as the claim has it: of 4 members T4 is ON, T3 OFF, T2 ON and T1 OFF;
\* of 3 members T3 is ON, T2 OFF and T1 ON.
C15_AsClaimed ==
    (pc = "listed" /\ ListedTimesDiffer)
    => /\ Len(Listed) = 4 => ListedActions = <<"OFF", "ON", "OFF", "ON">>
       /\ Len(Listed) = 3 => ListedActions = <<"ON", "OFF", "ON">>

C15_Witness ==
    /\ pc = "listed"
    /\ ListedTimesDiffer
    /\ Len(Listed) = 4
    /\ Listed[4].action = "OFF"
    /\ Listed[1].action = "ON"

\* Market times of the jobs of the switch queue.
SwitchJobTimes ==
    {utc_to_market_time(system_time_to_utc(atq[j].time, sys), dst) : j \in SwitchJobs}

LoopDone ==
    \/ pc = "loop" /\ rem_minutes <= 0
    \/ pc = "done"
    \/ pc = "failed" /\ err \in {"no_on_first", "no_off_last", "key_error"}

RECURSIVE SumMins(_)
SumMins(slices) ==
    IF slices = <<>> THEN 0 ELSE slices[1][2] + SumMins(Tail(slices))

PriceOf(t) == table[CHOOSE i \in 1 .. Len(table) : table[i][1] = t][2]

\* C18: the hours heated are the cheapest: the hours popped so far are
\* pairwise distinct rows of the table, popped in non-decreasing order of
\* price, and no hour still unpopped is strictly cheaper than a popped one.
C18_CheapestFirst ==
    LET priced == {table[i][1] : i \in 1 .. Len(table)}
        left == {data[i][1] : i \in 1 .. Len(data)}
    IN  /\ DistinctStarts
        /\ AddedStarts \subseteq priced
        /\ AddedStarts \cap left = {}
        /\ Len(added) + Len(data) <= Len(table)
        /\ \A i \in 1 .. (Len(added) - 1) :
             PriceOf(added[i][1]) <= PriceOf(added[i + 1][1])
        /\ \A i \in 1 .. Len(added), j \in 1 .. Len(data) :
             ~(data[j][2] < PriceOf(added[i][1]))

C18_Witness ==
    /\ pc = "done"
    /\ Len(added) = 3
    /\ added[1][1] = 2 * HourMins
    /\ added[2][1] = 0
    /\ added[3][1] = HourMins
    /\ PriceOf(0) = PriceOf(HourMins)
    /\ PriceOf(2 * HourMins) < PriceOf(0)
    /\ PriceOf(HourMins) < data[1][2]

C20_ClearsExactly ==
    pc = "cleared"
    => LET before == qcall.before
           gone == {before[i].id : i \in {j \in 1 .. Len(before) :
                       /\ before[j].queue = qcall.queue
                       /\ system_time_to_utc(before[j].time, sys) >= qcall.t}}
       IN  atq = RemoveIds(before, gone)

\* C21: after a fetch run into an empty queue, from_queue for the switch
\* queue returns the events of the built schedule in chronological order: as
\* many members, the same UTC times, the queue tag, and the action of the
\* command queued for that time.
C21_FetchThenList ==
    (pc = "done" /\ StartedOnEmptyQueue)
    => LET members == from_queue(atq, SwitchQueue, sys)
       IN  /\ Len(members) = Len(sched)
           /\ \A i \in 1 .. Len(members) :
                /\ members[i].dt = market_time_to_utc(sched[i][2], dst)
                /\ members[i].queue = SwitchQueue
                /\ members[i].action = ActionName(sched[i][1])

\* The schedule after the first k slices of the history, on list s.
RECURSIVE Replay(_, _)
Replay(s, k) ==
    IF k = 0 THEN s
    ELSE add_heating_slice(Replay(s, k - 1), added[k][1], added[k][2]).sched

\* The hour that starts at t lies inside an ON/OFF interval of list s: at its
\* start, at its end or in its interior.
CoveredHour(s, t) ==
    LET sorted == SortByTime(s)
    IN  \E k \in 1 .. (Len(sorted) \div 2) :
            /\ sorted[2 * k - 1][1] = ON_EVENT
            /\ sorted[2 * k][1] = OFF_EVENT
            /\ sorted[2 * k - 1][2] <= t
            /\ t + HourMins <= sorted[2 * k][2]

\* C22: a slice for an hour the schedule already covers raises the
\* duplicate-entry error: no slice that was taken (added without error) was
\* for an hour covered by the schedule it was added to.
C22_DuplicateRaises ==
    \A j \in 1 .. Len(added) : ~CoveredHour(Replay(<<>>, j - 1), added[j][1])

\* The schedule the three-pass procedure builds from the first k slices of the
\* history.
RECURSIVE ThreePassReplay(_)
ThreePassReplay(k) ==
    IF k = 0 THEN <<>>
    ELSE three_pass_add(ThreePassReplay(k - 1), added[k][1], added[k][2])

Fragments == {i \in 1 .. Len(added) : added[i][2] < HourMins}

\* C23: for every session of slices on distinct hours with at most one
\* fragment, the hours_contiguous insertion of the code leaves the same
\* time-sorted schedule as the three-pass procedure.
C23_SameAsThreePass ==
    (DistinctStarts /\ Cardinality(Fragments) <= 1)
    => Sorted = ThreePassReplay(Len(added))

\* ---------------------------------------------------------------- C24
AllPresent ==
    \A i \in 1 .. Len(CONFIG_REQ_KEYS) :
        /\ config_tree.sections[i].kind = "table"
        /\ Range(CONFIG_REQ_KEYS[i].keys) \subseteq config_tree.sections[i].keys

RegionAccepted ==
    /\ config_tree.region.case # "number"
    /\ \E r \in ACCEPTABLE_REGION_NAMES : r.name = config_tree.region.name

\* The first required section or key, in the order of CONFIG_REQ_KEYS, that
\* the file does not hold.
FirstMissing ==
    LET bad == {i \in 1 .. Len(CONFIG_REQ_KEYS) :
                   \/ config_tree.sections[i].kind # "table"
                   \/ ~(Range(CONFIG_REQ_KEYS[i].keys) \subseteq config_tree.sections[i].keys)}
        i == CHOOSE b \in bad : \A c \in bad : b <= c
        keys == CONFIG_REQ_KEYS[i].keys
        gone == {k \in 1 .. Len(keys) : keys[k] \notin config_tree.sections[i].keys}
    IN  IF config_tree.sections[i].kind = "absent" THEN CONFIG_REQ_KEYS[i].section
        ELSE keys[CHOOSE k \in gone : \A l \in gone : k <= l]

\* C24: check_config accepts exactly the trees that hold every required
\* section and key and an accepted region code in any letter case; with a
\* key missing it returns (False, the first missing section or key); the
\* core runs only on an accepted configuration.
C24_ValidatedBeforeCore ==
    (pc # "load")
    => /\ (ret.exc = "none" /\ ret.ok) <=> (AllPresent /\ RegionAccepted)
       /\ ~AllPresent => ret = Returned(FALSE, FirstMissing)
       /\ pc = "core" => (AllPresent /\ RegionAccepted)

NoScalarSection ==
    \A i \in 1 .. Len(CONFIG_REQ_KEYS) : config_tree.sections[i].kind # "scalar"

C24_TablesOnly == NoScalarSection => C24_ValidatedBeforeCore
\* ---------------------------------------------------------------- C25
FetchCronjobs == SelectSeq(crontab, LAMBDA job : job.comment = FETCH_CRON_COMMENT)

\* Minutes west of UTC of the host's wall clock on the day: cron fires an
\* entry by the wall clock, which is on daylight time in summer only.
WallClockWest == IF sys.daylight = 1 /\ dst = "summer" THEN sys.altzone ELSE sys.timezone

\* Market time of day at which cron fires the entry.
FiresAtMarket(job) ==
    LET utc == job.hour * HourMins + job.minute + WallClockWest
    IN  utc_to_market_time(utc, dst) % DayMins

\* C25: after any number of setup runs exactly one cron entry carries the
\* fetch comment, and it is set to 21:30 market time in system time.
C25_OneEntryAt2130 ==
    (ret.op = "setup" /\ ret.n > 0)
    => /\ Len(FetchCronjobs) = 1
       /\ FiresAtMarket(FetchCronjobs[1]) = Market2130

\* The part on the number of entries alone.
C25_OneEntry == (ret.op = "setup" /\ ret.n > 0) => Len(FetchCronjobs) = 1

\* The time is right on a host whose clock has no daylight time, in winter.
C25_At2130NoDaylight ==
    (ret.op = "setup" /\ ret.n > 0 /\ sys.daylight = 0 /\ dst = "winter")
    => FiresAtMarket(FetchCronjobs[1]) = Market2130
\* ---------------------------------------------------------------- C26
\* C26: upload on an empty schedule is a no-op: the queue is not listed, no
\* job is removed or inserted, no command is submitted and no error is raised.
C26_EmptyUploadNoOp ==
    [][(pc = "built" /\ sched = <<>>)
       => /\ UNCHANGED <<atq, cmds, qcall, sched>>
          /\ err' = "none"
          /\ pc' = "uploaded"]_vars

\* upload has returned on an empty list, with jobs of earlier runs in the
\* queue and a configuration that lacks the key upload_command reads.
C26_Witness ==
    /\ pc = "uploaded"
    /\ sched = <<>>
    /\ Len(atq) > 0
    /\ at_queue = MissingKey
\* ---------------------------------------------------------------- C27
\* C27: when do_fetch has completed, the number of jobs it has added to the
\* queue is even.
C27_EvenJobs == (pc = "done") => Inserted % 2 = 0

\* The same where every "at" process has accepted its command.
C27_EvenWhenAccepted == (pc = "done" /\ failed = {}) => Inserted % 2 = 0
\* ---------------------------------------------------------------- C28
\* C28: every insert of upload is tagged with environment.switch_queue, and
\* upload needs no configuration key beyond the required ones: on a valid
\* configuration it does not end on a missing key.
C28_TaggedSwitchQueue ==
    (pc \in {"uploaded", "failed"} /\ sched # <<>> /\ ~FailsValidation(sched))
    => /\ err # "key_error"
       /\ Len(cmds) = Len(sched)
       /\ \A i \in 1 .. Len(cmds) : cmds[i].queue = SwitchQueue

\* The tag upload does use: the value of environment.at_queue.
C28_TaggedAtQueue ==
    (pc \in {"uploaded", "failed"} /\ sched # <<>> /\ ~FailsValidation(sched))
    => IF at_queue = MissingKey THEN err = "key_error" /\ cmds = <<>>
       ELSE \A i \in 1 .. Len(cmds) : cmds[i].queue = at_queue
\* ---------------------------------------------------------------- C29
\* The slices added so far are whole hours, each starting an hour after
\* (step = HourMins) or an hour before (step = -HourMins) the one before it.
IsRun(step) ==
    /\ Len(added) >= 1
    /\ \A i \in 1 .. Len(added) :
         added[i] = <<added[1][1] + (i - 1) * step, HourMins>>

RunStart == IF IsRun(HourMins) THEN added[1][1] ELSE added[Len(added)][1]

\* C29: from an empty schedule, N consecutive 60-minute slices added in
\* ascending or in descending order from any time T, on the hour or not, give
\* the one pair (ON, T), (OFF, T + N h), and none of the calls raises.
C29_ConsecutiveHoursOnePair ==
    (IsRun(HourMins) \/ IsRun(-HourMins))
    => /\ sched = << <<ON_EVENT, RunStart>>,
                     <<OFF_EVENT, RunStart + Len(added) * HourMins>> >>
       /\ add_heating_slice(sched, RunStart + Len(added) * HourMins, HourMins).err = "none"
       /\ add_heating_slice(sched, RunStart - HourMins, HourMins).err = "none"

\* Three hours added latest first, starting off the hour.
C29_Witness ==
    /\ Len(added) = MaxRunSlices
    /\ MaxRunSlices >= 3
    /\ IsRun(-HourMins)
    /\ RunStart % HourMins # 0
C31_CommandsAlternate ==
    (pc = "done")
    => /\ Len(cmds) % 2 = 0
       /\ \A i \in 1 .. Len(cmds) :
            cmds[i].action = (IF i % 2 = 1 THEN "ON" ELSE "OFF")
       /\ \A i \in 1 .. (Len(cmds) - 1) : cmds[i].dt < cmds[i + 1].dt

\* ---------------------------------------------------------------- C32
\* Minute t is inside an interval from an ON event to the next OFF event of
\* the time-sorted list s.
HeatedAt(s, t) ==
    \E i \in 1 .. Len(s) :
        /\ s[i][1] = ON_EVENT
        /\ s[i][2] <= t
        /\ \E j \in (i + 1) .. Len(s) :
              /\ s[j][1] = OFF_EVENT
              /\ \A k \in (i + 1) .. (j - 1) : s[k][1] # OFF_EVENT
              /\ t < s[j][2]

\* Heated minutes of the hour that starts at h.
HeatedMinutes(s, h) ==
    Cardinality({t \in h .. (h + HourMins - 1) : HeatedAt(s, t)})

\* C32: after the slices of a fetch run, the intervals from each ON to the
\* next OFF of the sorted schedule hold exactly m minutes of the hour of every
\* slice (H, m) added and no minute of an hour without a slice.
C32_HeatsWhatWasAdded ==
    (pc \in {"loop", "done"} /\ err = "none")
    => /\ \A i \in 1 .. Len(added) : HeatedMinutes(Sorted, added[i][1]) = added[i][2]
       /\ \A h \in (-1) .. MaxHour :
            (h * HourMins) \notin AddedStarts => HeatedMinutes(Sorted, h * HourMins) = 0
\* ---------------------------------------------------------------- C33
\* Sum of the OFF timestamps minus sum of the ON timestamps of a list.
RECURSIVE OffMinusOn(_)
OffMinusOn(s) ==
    IF s = <<>> THEN 0
    ELSE (IF Head(s)[1] = OFF_EVENT THEN Head(s)[2] ELSE 0 - Head(s)[2])
           + OffMinusOn(Tail(s))

CountOf(s, kind) == Cardinality({i \in 1 .. Len(s) : s[i][1] = kind})

\* C33: after any calls of add_heating_slice that returned, the schedule
\* holds an even number of events, as many ON as OFF, and the OFF timestamps
\* minus the ON timestamps sum to the minutes of the slices added.
C33_MinutesConserved ==
    /\ Len(sched) % 2 = 0
    /\ CountOf(sched, ON_EVENT) = CountOf(sched, OFF_EVENT)
    /\ OffMinusOn(sched) = SumMins(added)

\* Three slices merged into one pair, the second a fragment placed before
\* the first, which moved the ON event.
C33_Witness ==
    /\ Len(added) = 3
    /\ Len(sched) = 2
    /\ added[2][1] < added[1][1]
    /\ added[2][2] < HourMins
\* ---------------------------------------------------------------- C34
DuplicateErrors == {"duplicate_before_off", "duplicate_after_on"}

\* C34: a call of add_heating_slice that raises a duplicate-entry error
\* leaves the schedule as it was: no event added, removed or moved.
C34_DuplicateLeavesSchedule ==
    [][(err' \in DuplicateErrors) => (sched' = sched /\ added' = added)]_vars

\* A duplicate was raised on a schedule of two intervals.
C34_Witness ==
    /\ err \in DuplicateErrors
    /\ Len(sched) = 4
\* ---------------------------------------------------------------- C35
\* C35: a switch job that fires while a fetch run holds the lock is not lost:
\* when the switch process has ended, the pin is at the level of its action.
C35_SwitchNotLost ==
    (procs["switch"].pc \in {"done", "refused"})
    => pin = pin_state(fired.action, fired.reverse_polarity)

\* The same for a switch process that found the lock free.
C35_DrivenWhenLockFree ==
    (procs["switch"].pc = "done")
    => pin = pin_state(fired.action, fired.reverse_polarity)
\* ---------------------------------------------------------------- C36
\* The action from_queue gave the job with this id before setup ran.
ActionBefore(id) ==
    LET i == CHOOSE j \in 1 .. Len(qcall.before) : qcall.before[j].id = id
    IN  qcall.before[i]

\* C36: setup schedules every job of the switch queue again at its time and
\* with the action from_queue infers for it, whatever the number of jobs.
C36_RequeueKeepsActions ==
    (qcall.op = "requeue")
    => /\ Len(qcall.issued) = Len(qcall.before)
       /\ \A k \in 1 .. Len(qcall.issued) :
            /\ qcall.issued[k].dt = ActionBefore(qcall.issued[k].id).dt
            /\ qcall.issued[k].action = ActionBefore(qcall.issued[k].id).action

\* The times alone: every job is scheduled again at the time it had.
C36_RequeueKeepsTimes ==
    (qcall.op = "requeue")
    => /\ Len(qcall.issued) = Len(qcall.before)
       /\ \A k \in 1 .. Len(qcall.issued) :
            qcall.issued[k].dt = ActionBefore(qcall.issued[k].id).dt
       /\ LET after == from_queue(atq, SwitchQueue, sys)
          IN  [k \in 1 .. Len(after) |-> after[k].dt]
                = [k \in 1 .. Len(qcall.before) |-> qcall.before[k].dt]

\* The actions are kept where "at" lists the jobs latest first, at distinct times.
C36_KeptWhenLatestFirst ==
    (qcall.op = "requeue"
       /\ \A k \in 1 .. (Len(qcall.issued) - 1) : qcall.issued[k].dt > qcall.issued[k + 1].dt)
    => C36_RequeueKeepsActions
\* ---------------------------------------------------------------- C37
\* Exceptions raised inside upload: the run did reach it.
UploadErrors == {"no_on_first", "no_off_last", "key_error"}

\* C37: for every budget and price table the allocation loop ends after at
\* most one slice per priced hour and upload is reached; a budget beyond
\* 60 minutes per priced hour does not abort the run.
C37_LoopReachesUpload ==
    /\ Len(added) <= Len(table)
    /\ pc = "failed" => err \in UploadErrors

\* The same for budgets of at most 60 minutes per priced hour.
C37_WithinTable ==
    (budget <= HourMins * Len(table)) => C37_LoopReachesUpload

\* The loop itself: it never takes more slices than there are priced hours.
C37_AtMostKSlices == Len(added) <= Len(table)
\* ---------------------------------------------------------------- C38
\* The minutes the file gives under a weekday name.
MinutesUnder(key) ==
    config_tree.heating[CHOOSE i \in 1 .. Len(config_tree.heating) :
                           config_tree.heating[i][1] = key][2]

\* C38: get_heating_minutes(w) returns the minutes configured under
\* WEEKDAY_KEYS[w], in whatever order the file lists the weekday keys.
C38_MinutesOfWeekday ==
    (ret.op = "get_heating_minutes")
    => ret.minutes = MinutesUnder(WEEKDAY_KEYS[ret.weekday + 1])

\* The same for a file that lists the days from monday to sunday.
C38_InWeekOrder ==
    (ret.op = "get_heating_minutes"
       /\ [i \in 1 .. Len(config_tree.heating) |-> config_tree.heating[i][1]] = WEEKDAY_KEYS)
    => ret.minutes = MinutesUnder(WEEKDAY_KEYS[ret.weekday + 1])
\* ---------------------------------------------------------------- C39
\* C39: ProgramConfig.__eq__ returns True exactly when the two trees have
\* the same keys and equal values at every level.
C39_EqIsEquality ==
    (ret.op = "eq") => (ret.result <=> (config_tree.tree = ret.other))

\* What __eq__ does return on two trees of the same shape whose entries are
\* dicts of numbers: True exactly when some key has the same value in both.
SameShape(a, b) ==
    /\ DOMAIN a.items = DOMAIN b.items
    /\ \A e \in DOMAIN a.items :
         /\ a.items[e].type = "dict"
         /\ b.items[e].type = "dict"
         /\ DOMAIN a.items[e].items = DOMAIN b.items[e].items

C39_TrueWhenSomeValueEqual ==
    (ret.op = "eq" /\ SameShape(config_tree.tree, ret.other))
    => (ret.result
          <=> \E e \in DOMAIN ret.other.items : \E k \in DOMAIN ret.other.items[e].items :
                 config_tree.tree.items[e].items[k] = ret.other.items[e].items[k])
====
